---- MODULE Spec2Model ----
(***************************************************************************)
(* A model of type-mapper: the conversion engine (src/src/mapper.ts) and   *)
(* the validator-chain combinators with their diagnostics                  *)
(* (src/unnamed/part_002, the repository's validation.ts).                 *)
(*                                                                         *)
(* JavaScript values are tagged records [t |-> tag, v |-> payload].        *)
(* Strings are TLA+ strings; aliases alone are kept as sequences of        *)
(* one-character strings so that split(".") and Number(part) are computed. *)
(* Keys found on the prototype chain ("constructor", "toString", ...) are  *)
(* outside the alphabet of the keys and aliases enumerated here.           *)
(***************************************************************************)
EXTENDS Integers, Sequences, FiniteSets, TLC

VARIABLES
    ctor,      \* convert: the target type descriptor
    data,      \* convert: the untyped input
    cb,        \* convert: whether a callback was supplied
    pc,        \* position of the convert call
    stack,     \* activation records of internalCreateInstance, innermost last
    ret,       \* value handed back by the internalCreateInstance that just returned
    path,      \* the shared path stack
    issues,    \* ValidationContext.issues
    outcome,   \* how convert ended: value returned or failure raised
    cbCalls,   \* invocations of the callback: <<result, issues>> each
    hookLog,   \* invocations of mapData / validate on constructed instances
    turns,     \* history: what each turn of a parameter or property loop did
    vIn,       \* validator run: the validations list and the value
    vOut,      \* validator run: the context after the run
    vpc        \* validator run: position

vars == <<ctor, data, cb, pc, stack, ret, path, issues, outcome, cbCalls, hookLog,
          turns, vIn, vOut, vpc>>

mapperVars == <<ctor, data, cb, pc, stack, ret, path, issues, outcome, cbCalls, hookLog,
                turns>>
validatorVars == <<vIn, vOut, vpc>>

----------------------------------------------------------------------------
(* Bounds of the model.                                                    *)

\* the number of refine() stages appended to a base chain
MaxStages == 2
\* the number of elements of an input array
MaxElems == 2
\* tracking wrappers nested around one ValidationContext
MaxWrappers == 2
\* calls made on the innermost tracking wrapper
MaxCalls == 3
\* objects nested in one another in an input of a self-referencing type
MaxDepth == 3

----------------------------------------------------------------------------
(* JavaScript values.                                                      *)

Undefined == [t |-> "undefined", v |-> 0]
Null == [t |-> "null", v |-> 0]
NaN == [t |-> "nan", v |-> 0]
Str(s) == [t |-> "str", v |-> s]
Num(n) == [t |-> "num", v |-> n]
Obj(f) == [t |-> "obj", v |-> f]
Arr(s) == [t |-> "arr", v |-> s]
Inst(r) == [t |-> "inst", v |-> r]

EmptyObject == Obj([k \in {} |-> Null])

\* value == null
IsNullish(x) == x.t \in {"null", "undefined"}

\* typeof value
TypeOf(x) ==
    CASE x.t = "undefined" -> "undefined"
      [] x.t = "str" -> "string"
      [] x.t \in {"num", "nan"} -> "number"
      [] OTHER -> "object"

\* the truthiness a condition gives a value
Truthy(x) ==
    CASE x.t \in {"undefined", "null", "nan"} -> FALSE
      [] x.t = "str" -> x.v # ""
      [] x.t = "num" -> x.v # 0
      [] OTHER -> TRUE

RECURSIVE JoinWith(_, _)
\* Array.prototype.join over strings
JoinWith(strs, sep) ==
    IF Len(strs) = 0 THEN ""
    ELSE IF Len(strs) = 1 THEN strs[1]
    ELSE strs[1] \o sep \o JoinWith(Tail(strs), sep)

RECURSIVE TemplateString(_)
\* `${value}`: the string a template literal renders a value as
TemplateString(x) ==
    CASE x.t = "undefined" -> "undefined"
      [] x.t = "null" -> "null"
      [] x.t = "nan" -> "NaN"
      [] x.t = "str" -> x.v
      [] x.t = "num" -> ToString(x.v)
      [] x.t = "arr" ->
           JoinWith([i \in 1..Len(x.v) |->
                       IF IsNullish(x.v[i]) THEN "" ELSE TemplateString(x.v[i])], ",")
      [] OTHER -> "[object Object]"

----------------------------------------------------------------------------
(* Diagnostics: IssueLevel, ValidationIssue, ValidationContext.            *)

info == 0
warn == 1
error == 2
\* maximumSeverity before any issue: undefined
NoSeverity == -1

IssueLevels == {info, warn, error}

ValidationIssue(p, level, message) == [path |-> p, level |-> level, message |-> message]

RECURSIVE pathStringFrom(_, _)
pathStringFrom(segs, str) ==
    IF Len(segs) = 0 THEN str
    ELSE LET p == segs[1]
             next == IF p.t = "str"
                     THEN (IF str # "" THEN str \o "." \o p.v ELSE str \o p.v)
                     ELSE str \o "[" \o ToString(p.v) \o "]"
         IN pathStringFrom(Tail(segs), next)

pathStringJoined(segs) == JoinWith([i \in 1..Len(segs) |-> TemplateString(segs[i])], ".")
\* ValidationContext.pathString
pathString(segs) == pathStringFrom(segs, "")

\* path.join("."), as handleRecursiveMapping renders the path
pathJoin(segs) ==
    JoinWith([i \in 1..Len(segs) |-> TemplateString(segs[i])], ".")

(* A diagnostics object as a validator sees it: the ValidationContext      *)
(* (its issues and its path) below a stack of TrackingValidationContext    *)
(* wrappers, innermost last; ran is the record of the stage functions      *)
(* invoked, in order.                                                      *)
Context(iss, p) == [issues |-> iss, path |-> p, trackers |-> <<>>, ran |-> <<>>]

\* the update every TrackingValidationContext method makes to maximumSeverity
TrackSeverityLatest(cur, level) == level
TrackSeverityNoInit(cur, level) == IF cur # NoSeverity /\ level > cur THEN level ELSE cur
TrackSeverity(cur, level) ==
    IF cur \in {NoSeverity, info} \/ level > cur THEN level ELSE cur

\* new TrackingValidationContext(ctx)
Wrap(ctx) == [ctx EXCEPT !.trackers = Append(@, NoSeverity)]
\* the wrapper goes out of scope
Unwrap(ctx) == [ctx EXCEPT !.trackers = SubSeq(@, 1, Len(@) - 1)]
\* wrappedContext.maximumSeverity of the innermost wrapper
maximumSeverity(ctx) == ctx.trackers[Len(ctx.trackers)]

\* addIssue on the innermost wrapper: each wrapper records the level and
\* forwards to the one it wraps; the ValidationContext appends the issue
addIssue(ctx, level, message) ==
    [ctx EXCEPT
       !.trackers = [i \in DOMAIN ctx.trackers |-> TrackSeverity(ctx.trackers[i], level)],
       !.issues = Append(@, ValidationIssue(pathString(ctx.path), level, message))]

----------------------------------------------------------------------------
(* Validator combinators.  A stage function is a record naming the         *)
(* function with its captured arguments; a chain is the closure            *)
(* makeValidatorChain or refineValidatorChain builds.                      *)

Fn(f, n, level, vals, flag) ==
    [f |-> f, n |-> n, level |-> level, vals |-> vals, flag |-> flag]

FnIsString == Fn("isString", 0, error, {}, FALSE)
FnIsNumber(allowNaN) == Fn("isNumber", 0, error, {}, allowNaN)
FnNullableIsString == Fn("nullable.isString", 0, error, {}, FALSE)
FnNullableIsNumber == Fn("nullable.isNumber", 0, error, {}, FALSE)
FnNoop == Fn("noop", 0, error, {}, FALSE)
FnMaxLength(len, level) == Fn("maxLength", len, level, {}, FALSE)
FnMinLength(len, level) == Fn("minLength", len, level, {}, FALSE)
FnEnum(values, level) == Fn("enum", 0, level, values, FALSE)
FnMax(limit, level) == Fn("max", limit, level, {}, FALSE)
FnMin(limit, level) == Fn("min", limit, level, {}, FALSE)
\* a validation function written by the user that reports one issue
FnCustom(level) == Fn("custom", 0, level, {}, FALSE)

\* the issues one invocation of a stage function reports: <<level, message>> each
Reports(fn, value) ==
    CASE fn.f \in {"isString", "nullable.isString"} ->
           IF TypeOf(value) # "string"
           THEN << <<error, "Expected type string, but found: " \o TypeOf(value)>> >>
           ELSE <<>>
      [] fn.f = "isNumber" ->
           IF TypeOf(value) # "number"
           THEN << <<error, "Expected type number, but found: " \o TypeOf(value)>> >>
           ELSE IF ~fn.flag /\ value.t = "nan"
           THEN << <<error, "Unexpected value: NaN">> >>
           ELSE <<>>
      [] fn.f = "nullable.isNumber" ->
           IF TypeOf(value) # "number"
           THEN << <<error, "Expected type number, but found: " \o TypeOf(value)>> >>
           ELSE <<>>
      [] fn.f = "maxLength" ->
           IF value.t = "str" /\ Len(value.v) > fn.n
           THEN << <<fn.level, "Maximum length exceeded (max: " \o ToString(fn.n)
                                 \o ", actual: " \o ToString(Len(value.v)) \o ")">> >>
           ELSE <<>>
      [] fn.f = "minLength" ->
           IF value.t = "str" /\ Len(value.v) < fn.n
           THEN << <<fn.level, "Minimum length violated (max: " \o ToString(fn.n)
                                 \o ", actual: " \o ToString(Len(value.v)) \o ")">> >>
           ELSE <<>>
      [] fn.f = "enum" ->
           IF ~(value.t = "str" /\ value.v \in fn.vals)
           THEN << <<fn.level, "Value did not match one of the "
                                 \o ToString(Cardinality(fn.vals))
                                 \o " expected options: " \o TemplateString(value)>> >>
           ELSE <<>>
      [] fn.f = "max" ->
           IF value.t = "num" /\ value.v > fn.n
           THEN << <<fn.level, "Value (" \o TemplateString(value)
                                 \o ") is greater than the maximum: " \o ToString(fn.n)>> >>
           ELSE <<>>
      [] fn.f = "min" ->
           IF value.t = "num" /\ value.v < fn.n
           THEN << <<fn.level, "Value (" \o TemplateString(value)
                                 \o ") is less than the minimum: " \o ToString(fn.n)>> >>
           ELSE <<>>
      [] fn.f = "custom" ->
           << <<fn.level, "custom:" \o TemplateString(value)>> >>
      [] OTHER -> <<>>

RECURSIVE addIssues(_, _)
addIssues(ctx, reports) ==
    IF Len(reports) = 0 THEN ctx
    ELSE addIssues(addIssue(ctx, reports[1][1], reports[1][2]), Tail(reports))

\* fn(value, ctx)
CallFn(fn, value, ctx) ==
    addIssues([ctx EXCEPT !.ran = Append(@, [fn |-> fn, value |-> value])],
              Reports(fn, value))

makeValidatorChainStrict(fn, ignoreNull) == [k |-> "base", fn |-> fn, ignoreNull |-> FALSE]
\* makeValidatorChain(fn, ignoreNull): the validate closure over fn
makeValidatorChain(fn, ignoreNull) ==
    [k |-> "base", fn |-> fn, ignoreNull |-> ignoreNull]

refineValidatorChain(chain, next, ignoreNull) ==
    [k |-> "refine", chain |-> chain, next |-> next, ignoreNull |-> ignoreNull]

\* validate.refine(next) of either closure
refine(chain, next) == refineValidatorChain(chain, next, chain.ignoreNull)

\* the gate of refineValidatorChain's validate: next runs unless chain reported an error
RefineGateOpen(ctx) == TRUE
RefineGate(ctx) == maximumSeverity(ctx) # error

\* the guard both validate closures start with
SkipsNullNever(chain, value) == FALSE
SkipsNull(chain, value) == chain.ignoreNull /\ IsNullish(value)

\* refineValidatorChain's validate after chain(value, wrappedContext) has run:
\* next runs on the same value and wrapper unless chain reported an error
refineNext(next, value, wrappedContext) ==
    IF RefineGate(wrappedContext) THEN CallFn(next, value, wrappedContext)
    ELSE wrappedContext

RECURSIVE validate(_, _, _)
\* chain(value, ctx): the validate closure of makeValidatorChain / refineValidatorChain
validate(chain, value, ctx) ==
    IF SkipsNull(chain, value) THEN ctx
    ELSE IF chain.k = "base" THEN CallFn(chain.fn, value, ctx)
    ELSE Unwrap(refineNext(chain.next, value, validate(chain.chain, value, Wrap(ctx))))

RECURSIVE validateAll(_, _, _)
validateAll(validations, value, ctx) ==
    IF Len(validations) = 0 THEN ctx
    ELSE validateAll(Tail(validations), value, validate(validations[1], value, ctx))

\* Validator.validateValue: the context after the run, still wrapped, so that
\* maximumSeverity of it is the value validateValue returns
validateValue(validations, value, context) ==
    validateAll(validations, value, Wrap(context))

\* the fluent builders
makeStringValidator(baseValidator) == baseValidator
makeNumberValidator(baseValidator) == baseValidator
makeNullableValidator(baseValidator) == baseValidator

isString == makeStringValidator(makeValidatorChain(FnIsString, FALSE))
isNumber(allowNaN) == makeNumberValidator(makeValidatorChain(FnIsNumber(allowNaN), FALSE))
nullable == makeNullableValidator(makeValidatorChain(FnNoop, TRUE))
nullableIsString == makeStringValidator(makeValidatorChain(FnNullableIsString, TRUE))
nullableIsNumber == makeNumberValidator(makeValidatorChain(FnNullableIsNumber, TRUE))
maxLength(v, len, level) == makeStringValidator(refine(v, FnMaxLength(len, level)))
minLength(v, len, level) == makeStringValidator(refine(v, FnMinLength(len, level)))
enum(v, values, level) == makeStringValidator(refine(v, FnEnum(values, level)))
max(v, limit, level) == makeNumberValidator(refine(v, FnMax(limit, level)))
min(v, limit, level) == makeNumberValidator(refine(v, FnMin(limit, level)))

----------------------------------------------------------------------------
(* Alias lookup: getProperty.                                              *)

DigitValue ==
    "0" :> 0 @@ "1" :> 1 @@ "2" :> 2 @@ "3" :> 3 @@ "4" :> 4 @@
    "5" :> 5 @@ "6" :> 6 @@ "7" :> 7 @@ "8" :> 8 @@ "9" :> 9

\* the string a sequence of characters spells
Concat(chars) == JoinWith(chars, "")

RECURSIVE splitFrom(_, _, _)
splitFrom(chars, cur, parts) ==
    IF Len(chars) = 0 THEN Append(parts, cur)
    ELSE IF chars[1] = "." THEN splitFrom(Tail(chars), <<>>, Append(parts, cur))
    ELSE splitFrom(Tail(chars), Append(cur, chars[1]), parts)

\* propertyRef.split(".")
split(chars) == splitFrom(chars, <<>>, <<>>)

RECURSIVE decimal(_, _)
decimal(chars, acc) ==
    IF Len(chars) = 0 THEN acc
    ELSE decimal(Tail(chars), acc * 10 + DigitValue[chars[1]])

\* Number(part) over letters and digits: a run of digits (the empty string
\* included, which is 0) is its decimal value, anything else is NaN
NumberOf(part) ==
    IF \A i \in 1..Len(part) : part[i] \in DOMAIN DigitValue
    THEN Num(decimal(part, 0))
    ELSE NaN

\* ixOrName: the number when the part parses, else the part
ixOrName(part) ==
    LET ix == NumberOf(part) IN IF ix.t = "nan" THEN Str(Concat(part)) ELSE ix

\* the `in` operator throws a TypeError on a primitive right operand
InThrows(current) == current.t \in {"str", "num", "nan", "undefined", "null"}

\* key in current, for an object or an array
HasKey(key, current) ==
    CASE current.t = "obj" -> TemplateString(key) \in DOMAIN current.v
      [] current.t = "arr" ->
           IF key.t = "num" THEN key.v < Len(current.v) ELSE key.v = "length"
      [] current.t = "inst" -> TemplateString(key) \in DOMAIN current.v.fields
      [] OTHER -> FALSE

\* current[key]
GetKey(key, current) ==
    IF ~HasKey(key, current) THEN Undefined
    ELSE CASE current.t = "obj" -> current.v[TemplateString(key)]
           [] current.t = "arr" ->
                IF key.t = "num" THEN current.v[key.v + 1] ELSE Num(Len(current.v))
           [] OTHER -> current.v.fields[TemplateString(key)]

NotFound == [found |-> FALSE, value |-> Undefined, threw |-> FALSE]
Found(value) == [found |-> TRUE, value |-> value, threw |-> FALSE]
Threw == [found |-> FALSE, value |-> Undefined, threw |-> TRUE]

RECURSIVE walk(_, _)
\* the loop of getProperty over the parts of a string reference
walk(parts, current) ==
    IF Len(parts) = 0 THEN Found(current)
    ELSE IF IsNullish(current) THEN NotFound
    ELSE IF InThrows(current) THEN Threw
    ELSE IF HasKey(ixOrName(parts[1]), current)
    THEN walk(Tail(parts), GetKey(ixOrName(parts[1]), current))
    ELSE NotFound

\* getProperty(propertyRef, data); propertyRef is Num(index) or Str-tagged characters
getProperty(propertyRef, d) ==
    IF propertyRef.t = "num"
    THEN IF InThrows(d) THEN Threw
         ELSE [found |-> HasKey(propertyRef, d), value |-> GetKey(propertyRef, d),
               threw |-> FALSE]
    ELSE walk(split(propertyRef.v), d)

----------------------------------------------------------------------------
(* Metadata: MappingMetadata and DecoratedType.                            *)

\* makeMappingMetadata, with the optional members absent
makeMappingMetadata ==
    [present |-> TRUE, aliases |-> <<>>, preValidationTransform |-> "none",
     validations |-> <<>>, transform |-> "none", mappedAs |-> "none",
     isArray |-> FALSE, isRequired |-> FALSE, defaultValue |-> Undefined]

\* a sparse entry of _parameters: reading it yields undefined
NoMapping == [makeMappingMetadata EXCEPT !.present = FALSE]

\* the decorators
alias(m, name) == [m EXCEPT !.aliases = Append(@, name)]
required(m) == [m EXCEPT !.isRequired = TRUE]
validateWith(m, fn) == [m EXCEPT !.validations = Append(@, fn)]
transform(m, fn, preValidation) ==
    IF preValidation THEN [m EXCEPT !.preValidationTransform = fn]
    ELSE [m EXCEPT !.transform = fn]
typeOf(m, type) == [m EXCEPT !.mappedAs = type]
arrayOf(m, type) == [m EXCEPT !.mappedAs = type, !.isArray = TRUE]
\* the metadata a declared default leaves on the mapping
withDefault(m, d) == [m EXCEPT !.defaultValue = d]

\* ifEmpty(mapping?.aliases, val): the references tried, in order
ifEmptyReversed(m, val) == IF m.present /\ Len(m.aliases) > 0 THEN [i \in 1..Len(m.aliases) |-> [t |-> "str", v |-> m.aliases[Len(m.aliases) + 1 - i]]] ELSE <<val>>
ifEmpty(m, val) ==
    IF m.present /\ Len(m.aliases) > 0
    THEN [i \in 1..Len(m.aliases) |-> [t |-> "str", v |-> m.aliases[i]]]
    ELSE <<val>>

\* a reference as a path segment and as text: the alias string or the index
Segment(ref) == IF ref.t = "num" THEN ref ELSE Str(Concat(ref.v))

\* a target type: the constructor with its static metadata.  fields are the
\* values its initializers give a new instance; mapData and validate are the
\* level of the issue the instance's hook reports ("absent": no such method,
\* NoSeverity: a hook that reports nothing)
DecoratedType(name, paramsKind, parameters, propsKind, properties, fields, mapData, validateHook) ==
    [name |-> name, paramsKind |-> paramsKind, _parameters |-> parameters,
     propsKind |-> propsKind, _properties |-> properties, fields |-> fields,
     mapData |-> mapData, validate |-> validateHook]

\* isDecoratedType: _properties must be an object when present; the array
\* check reads the name "_parmeters", which no type carries
isDecoratedType(c) ==
    LET objectOrUnspecified == c.propsKind \in {"absent", "object"}
        arrayOrUnspecified == TRUE
    IN objectOrUnspecified /\ arrayOrUnspecified

----------------------------------------------------------------------------
(* Transform functions the metadata may carry (those of the tests).        *)

\* the upper-case form of the strings of the model
UpperCase ==
    "" :> "" @@ "two" :> "TWO" @@ "d" :> "D" @@ "42" :> "42" @@ "0" :> "0"

\* fn(val): the value, or a TypeError thrown by the function
ApplyTransform(fn, val) ==
    CASE fn = "none" -> [threw |-> FALSE, value |-> val]
      \* (v) => v?.toString()
      [] fn = "toString" ->
           [threw |-> FALSE,
            value |-> IF IsNullish(val) THEN Undefined ELSE Str(TemplateString(val))]
      \* (v) => v.toUpperCase()
      [] fn = "toUpperCase" ->
           IF val.t = "str" THEN [threw |-> FALSE, value |-> Str(UpperCase[val.v])]
           ELSE [threw |-> TRUE, value |-> Undefined]

----------------------------------------------------------------------------
(* The conversion engine: Mapper.                                          *)

\* an activation of internalCreateInstance
NewFrame(c, d) ==
    [ctor |-> c, data |-> d, phase |-> "enter", index |-> 0, params |-> <<>>,
     result |-> Undefined, await |-> "none", elems |-> <<>>, acc |-> <<>>]

NoReturn == [has |-> FALSE, value |-> Undefined]
Returned(value) == [has |-> TRUE, value |-> value]

Top == stack[Len(stack)]
WithTop(f) == [stack EXCEPT ![Len(stack)] = f]
Pop(s) == SubSeq(s, 1, Len(s) - 1)

\* params[index] = val on a JavaScript array: the array grows to hold the index
SetParam(params, index, val) ==
    [i \in 1..(IF Len(params) > index + 1 THEN Len(params) ELSE index + 1) |->
       IF i = index + 1 THEN val
       ELSE IF i <= Len(params) THEN params[i] ELSE Undefined]

\* result[key] = val
SetField(inst, key, val) ==
    Inst([inst.v EXCEPT !.fields = (key :> val) @@ inst.v.fields])

ConstructBare(c, params) == Inst([cls |-> c.name, args |-> params, fields |-> [k \in {} |-> Undefined]])
\* new ctor(...params)
Construct(c, params) ==
    Inst([cls |-> c.name, args |-> params, fields |-> c.fields])

RECURSIVE lookup(_, _)
\* one turn of the alias loop, given what getProperty returned
lookupTurn(refs, d, got) ==
    IF got.threw THEN [kind |-> "threw", tried |-> <<refs[1]>>, value |-> Undefined]
    ELSE IF got.found THEN [kind |-> "found", tried |-> <<refs[1]>>, value |-> got.value]
    ELSE [lookup(Tail(refs), d) EXCEPT !.tried = <<refs[1]>> \o @]

\* the alias loop up to its first found reference: tried are the references
\* handed to getProperty, in order, the last of them the one found
lookup(refs, d) ==
    IF Len(refs) = 0 THEN [kind |-> "none", tried |-> <<>>, value |-> Undefined]
    ELSE lookupTurn(refs, d, getProperty(refs[1], d))

\* the validations of a mapping run on a value under the path p:
\* the issue list afterwards and validationResult
ValidationsRun(after) == [issues |-> after.issues, result |-> maximumSeverity(after)]
RunValidations(m, val, iss, p) ==
    IF Len(m.validations) > 0
    THEN ValidationsRun(validateValue(m.validations, val, Context(iss, p)))
    ELSE [issues |-> iss, result |-> NoSeverity]

\* whether a validation result lets the value through
ValuePasses(validationResult) == validationResult # error

(* One turn of the loop over a parameter or property up to the point where *)
(* the value is stored or the nested mapping is called.  kind is           *)
(*   "threw"    an unexpected TypeError                                    *)
(*   "unmapped" no reference was found                                     *)
(*   "invalid"  found, and the validations reported an error               *)
(*   "value"    found and valid: val is ready to be stored                 *)
(*   "nested"   found and valid: val goes to handleRecursiveMapping        *)
Resolved(kind, val, iss, p, l) ==
    [kind |-> kind, val |-> val, issues |-> iss, path |-> p, tried |-> l.tried,
     raw |-> l.value]

\* the reference the alias loop found
FoundRef(l) == l.tried[Len(l.tried)]

\* after the transform: the nested mapping, or the value as it is
ResolveTransformed(m, post, iss, p1, l) ==
    IF post.threw THEN Resolved("threw", Undefined, iss, p1, l)
    ELSE IF m.mappedAs # "none" THEN Resolved("nested", post.value, iss, p1, l)
    ELSE Resolved("value", post.value, iss, Pop(p1), l)

ResolveValidatedNoPop(m, val, v, p1, l) ==
    IF ~ValuePasses(v.result) THEN Resolved("invalid", Undefined, v.issues, p1, l)
    ELSE ResolveTransformed(m, ApplyTransform(m.transform, val), v.issues, p1, l)
\* after the validations: a value with validation errors is ignored
ResolveValidated(m, val, v, p1, l) ==
    IF ~ValuePasses(v.result) THEN Resolved("invalid", Undefined, v.issues, Pop(p1), l)
    ELSE ResolveTransformed(m, ApplyTransform(m.transform, val), v.issues, p1, l)

ResolvePreValidatesRaw(m, pre, iss, p1, l) == IF pre.threw THEN Resolved("threw", Undefined, iss, p1, l) ELSE ResolveValidated(m, pre.value, RunValidations(m, l.value, iss, p1), p1, l)
\* after the pre-validation transform
ResolvePre(m, pre, iss, p1, l) ==
    IF pre.threw THEN Resolved("threw", Undefined, iss, p1, l)
    ELSE ResolveValidated(m, pre.value, RunValidations(m, pre.value, iss, p1), p1, l)

\* after the alias loop found, or did not find, a reference
ResolveLooked(m, l, iss, p) ==
    IF l.kind = "threw" THEN Resolved("threw", Undefined, iss, p, l)
    ELSE IF l.kind = "none" THEN Resolved("unmapped", Undefined, iss, p, l)
    ELSE IF ~m.present THEN Resolved("threw", Undefined, iss, Append(p, Segment(FoundRef(l))), l)
    ELSE ResolvePre(m, ApplyTransform(m.preValidationTransform, l.value), iss,
                    Append(p, Segment(FoundRef(l))), l)

ResolveSameData(m, refs, d, iss, p) == ResolveLooked(m, [lookup(refs, d) EXCEPT !.value = d], iss, p)
\* one turn: the alias loop over the references, then the pipeline
Resolve(m, refs, d, iss, p) == ResolveLooked(m, lookup(refs, d), iss, p)

\* whether the fallback of an unmapped parameter or property applies its default
DefaultApplies(m) == m.present /\ Truthy(m.defaultValue)

\* whether the fallback runs: the code tests the flag `mapped`, which is set
\* only where the value is stored
FallbackRuns(kind) == kind \in {"unmapped", "invalid"}

\* the text after "not found: " for a parameter: the references, comma-joined
RefsText(refs) == JoinWith([i \in 1..Len(refs) |-> TemplateString(Segment(refs[i]))], ",")

\* ctx.error(message) on the ValidationContext
ctxError(iss, p, message) == Append(iss, ValidationIssue(pathString(p), error, message))

\* a hook of a target type: whether its instances have the method, and the
\* level of the issue the method reports (NoSeverity: it reports nothing)
Hook(has, level) == [has |-> has, level |-> level]
NoHook == Hook(FALSE, NoSeverity)

\* implementsCustomMapping(result) / implementsCustomValidation(result)
implementsCustomMapping(c) == c.mapData.has
implementsCustomValidation(c) == c.validate.has

\* result.mapData(data, ctx) / result.validate(ctx): the issue list afterwards
RunHook(hook, name, iss, p) ==
    IF hook.has /\ hook.level # NoSeverity
    THEN Append(iss, ValidationIssue(pathString(p), hook.level, name))
    ELSE iss

\* how convert ended
Outcome(kind, value, count, message, context) ==
    [kind |-> kind, value |-> value, count |-> count, message |-> message,
     context |-> context]
NoOutcome == Outcome("none", Undefined, 0, "", <<>>)

errorsOf(iss) == SelectSeq(iss, LAMBDA i : i.level = error)

\* the test convert makes before throwing the aggregate failure
ShouldThrowOnSecond(errors) == Len(errors) > 1
ShouldThrow(errors) == Len(errors) > 0

----------------------------------------------------------------------------
(* The target types and inputs conversion is run on.                       *)

A == <<"a">>
B == <<"b">>
C == <<"c">>
X == <<"x">>
Y == <<"y">>

\* the nested target types, by name
InnerType ==
    DecoratedType("Inner", "absent", <<>>, "object",
                  <<[key |-> B, mapping |-> validateWith(makeMappingMetadata, isString)]>>,
                  "b" :> Str(""), NoHook, NoHook)
InnerHookedType ==
    DecoratedType("InnerHooked", "absent", <<>>, "object",
                  <<[key |-> B, mapping |-> makeMappingMetadata]>>,
                  "b" :> Str(""), Hook(TRUE, info), Hook(TRUE, error))
\* a type whose property n is of the type itself
N == <<"n">>
NodeType ==
    DecoratedType("Node", "absent", <<>>, "object",
                  <<[key |-> N, mapping |-> typeOf(makeMappingMetadata, "Node")]>>,
                  "n" :> Null, NoHook, NoHook)
Types == "Inner" :> InnerType @@ "InnerHooked" :> InnerHookedType @@ "Node" :> NodeType

NoFields == [k \in {} |-> Undefined]

\* a class with the one mapped property x, initialised to "init"
PropType(m, mapData, validateHook) ==
    DecoratedType("T", "absent", <<>>, "object", <<[key |-> X, mapping |-> m]>>,
                  "x" :> Str("init"), mapData, validateHook)
\* a class with the one mapped constructor parameter
ParamType(m, mapData, validateHook) ==
    DecoratedType("T", "array", <<m>>, "absent", <<>>, NoFields, mapData, validateHook)

FieldTypes(ms, hooks) ==
    {PropType(m, h[1], h[2]) : m \in ms, h \in hooks}
      \cup {ParamType(m, h[1], h[2]) : m \in ms, h \in hooks}

\* objects with some of the keys, each holding one of the values
ObjectsOver(keys, vals) ==
    {Obj(f) : f \in UNION {[ks -> vals] : ks \in SUBSET keys}}

RECURSIVE SeqsUpTo(_, _)
\* the sequences over S of length at most n
SeqsUpTo(S, n) ==
    IF n = 0 THEN {<<>>}
    ELSE LET shorter == SeqsUpTo(S, n - 1)
         IN shorter \cup {Append(q, e) : q \in shorter, e \in S}

Scalars == {Undefined, Null, Str("two"), Num(42)}

\* alias resolution, required and default
ResolutionMappings ==
    {[makeMappingMetadata EXCEPT !.aliases = al, !.isRequired = rq,
                                 !.defaultValue = dv, !.validations = vl] :
       al \in {<<A>>, <<A, B>>, <<B, A>>}, rq \in BOOLEAN,
       dv \in {Undefined, Str("d"), Str(""), Num(0)},
       vl \in {<<>>, <<isString>>}}
ResolutionScenarios ==
    [ctor : FieldTypes(ResolutionMappings, {<<NoHook, NoHook>>}),
     data : ObjectsOver({"a", "b"}, Scalars), cb : BOOLEAN]

\* pre-validation transform, validations, transform
PipelineValidations ==
    {<<nullableIsString>>,
     <<minLength(maxLength(nullableIsString, 1, error), 5, error)>>,
     <<max(min(isNumber(FALSE), 5, error), 10, error)>>,
     <<makeValidatorChain(FnCustom(info), FALSE)>>,
     <<isString, makeValidatorChain(FnCustom(warn), FALSE)>>}
PipelineMappings ==
    {[makeMappingMetadata EXCEPT !.aliases = <<A>>, !.preValidationTransform = pre,
                                 !.validations = vl, !.transform = tr,
                                 !.defaultValue = dv] :
       pre \in {"none", "toString"}, vl \in PipelineValidations,
       tr \in {"none", "toUpperCase"}, dv \in {Undefined, Str("d")}}
PipelineScenarios ==
    [ctor : FieldTypes(PipelineMappings, {<<NoHook, NoHook>>}),
     data : ObjectsOver({"a"}, Scalars \cup {Str(""), Num(0)}), cb : BOOLEAN]

\* nested types, single and array, and hooks
NestedObjects == {Null, Obj("b" :> Str("two")), Obj("b" :> Num(42))}
NestedValues ==
    {Undefined, Str("two"), EmptyObject} \cup NestedObjects
      \cup {Arr(q) : q \in SeqsUpTo(NestedObjects, MaxElems)}
NestedMappings ==
    {[makeMappingMetadata EXCEPT !.aliases = <<A>>, !.mappedAs = ty, !.isArray = ar] :
       ty \in {"Inner", "InnerHooked"}, ar \in BOOLEAN}
NestedScenarios ==
    [ctor : FieldTypes(NestedMappings,
                       {<<NoHook, NoHook>>, <<Hook(TRUE, warn), Hook(TRUE, NoSeverity)>>,
                        <<NoHook, Hook(TRUE, error)>>}),
     data : ObjectsOver({"a"}, NestedValues), cb : BOOLEAN]

\* a class with a mapped constructor parameter and the mapped properties x and y
SiblingType(mp, mx, my) ==
    DecoratedType("S", "array", <<mp>>, "object",
                  <<[key |-> X, mapping |-> mx], [key |-> Y, mapping |-> my]>>,
                  "x" :> Str("init") @@ "y" :> Str("init"), NoHook, NoHook)
\* a validated and transformed string under an alias
StringMapping(name, dv) ==
    [makeMappingMetadata EXCEPT !.aliases = <<name>>, !.validations = <<isString>>,
                                 !.transform = "toUpperCase", !.defaultValue = dv]
\* a nested object under an alias, validated by a function reporting at a level
ObjectMapping(name, level) ==
    [makeMappingMetadata EXCEPT !.aliases = <<name>>, !.mappedAs = "Inner",
                                 !.validations = <<makeValidatorChain(FnCustom(level), FALSE)>>]
SiblingTypes ==
    {SiblingType(StringMapping(A, Undefined), StringMapping(B, dv), ObjectMapping(C, level)) :
       dv \in {Undefined, Str("d")}, level \in {warn, error}}
SiblingData ==
    {Obj(f) : f \in UNION {[ks -> {Str("two"), Num(42)}] : ks \in SUBSET {"a", "b"}}}
      \cup {Obj(("c" :> o) @@ f) :
              o \in {Obj("b" :> Str("two")), Obj("b" :> Num(42))},
              f \in UNION {[ks -> {Str("two"), Num(42)}] : ks \in SUBSET {"a", "b"}}}
SiblingScenarios == [ctor : SiblingTypes, data : SiblingData, cb : BOOLEAN]

\* types without mappings, malformed descriptors, a sparse parameter list,
\* inputs that are no objects
PlainType == DecoratedType("Plain", "absent", <<>>, "absent", <<>>, "x" :> Str("init"), NoHook, NoHook)
PlainHookedType ==
    DecoratedType("PlainHooked", "absent", <<>>, "absent", <<>>, "x" :> Str("init"),
                  Hook(TRUE, info), Hook(TRUE, error))
MalformedPropsType == DecoratedType("Bad", "absent", <<>>, "other", <<>>, NoFields, NoHook, NoHook)
MalformedParamsType == DecoratedType("BadParams", "other", <<>>, "absent", <<>>, NoFields, NoHook, NoHook)
SparseParamType ==
    DecoratedType("Sparse", "array", <<NoMapping, alias(makeMappingMetadata, A)>>,
                  "absent", <<>>, NoFields, NoHook, NoHook)
EdgeScenarios ==
    [ctor : {PlainType, PlainHookedType, MalformedPropsType, MalformedParamsType,
             SparseParamType, PropType(makeMappingMetadata, NoHook, NoHook),
             ParamType(makeMappingMetadata, NoHook, NoHook)},
     data : {Undefined, Null, Str("two"), Num(42), EmptyObject, Obj("x" :> Str("two")),
             Obj("0" :> Str("two")), Arr(<<Str("two")>>)},
     cb : BOOLEAN]

\* dotted aliases: a name below a, an index below a
AB == <<"a", ".", "b">>
A0 == <<"a", ".", "0">>
LookupMappings == {alias(makeMappingMetadata, al) : al \in {AB, A0}}
LookupData ==
    {EmptyObject}
      \cup {Obj("a" :> v) :
              v \in {Undefined, Null, Str("two"), Num(42), EmptyObject,
                     Obj("b" :> Str("two")), Obj("0" :> Num(42)), Arr(<<Str("two")>>)}}
LookupScenarios ==
    [ctor : FieldTypes(LookupMappings, {<<NoHook, NoHook>>}), data : LookupData, cb : BOOLEAN]

RECURSIVE NodeData(_)
\* inputs of at most k objects nested under the key n
NodeData(k) ==
    IF k = 0 THEN {Null, EmptyObject}
    ELSE NodeData(k - 1) \cup {Obj("n" :> d) : d \in NodeData(k - 1)}
\* self-referencing metadata: the type itself, and a type with a field or
\* an array of it
CyclicScenarios ==
    [ctor : {NodeType}, data : NodeData(MaxDepth), cb : BOOLEAN]
      \cup [ctor : FieldTypes({typeOf(alias(makeMappingMetadata, A), "Node")},
                              {<<NoHook, NoHook>>}),
            data : {Obj("a" :> d) : d \in NodeData(MaxDepth)}, cb : {FALSE}]
      \cup [ctor : FieldTypes({arrayOf(alias(makeMappingMetadata, A), "Node")},
                              {<<NoHook, NoHook>>}),
            data : {Obj("a" :> Arr(q)) :
                      q \in SeqsUpTo({Null, EmptyObject, Obj("n" :> EmptyObject)}, MaxElems)},
            cb : {FALSE}]

\* nested types that reference no further type, single and array
AcyclicScenarios ==
    [ctor : FieldTypes(NestedMappings, {<<NoHook, NoHook>>}),
     data : {Obj("a" :> Null), Obj("a" :> Obj("b" :> Str("two"))),
             Obj("a" :> Arr(<<Obj("b" :> Num(42))>>))},
     cb : BOOLEAN]

Scenarios ==
    ResolutionScenarios \cup PipelineScenarios \cup NestedScenarios \cup SiblingScenarios
      \cup EdgeScenarios \cup LookupScenarios \cup CyclicScenarios

----------------------------------------------------------------------------
(* The convert call, step by step.                                         *)

ValidatorIdle ==
    /\ vIn = [validations |-> <<>>, value |-> Undefined]
    /\ vOut = Context(<<>>, <<>>)
    /\ vpc = "idle"

Init ==
    /\ \E sc \in Scenarios : ctor = sc.ctor /\ data = sc.data /\ cb = sc.cb
    /\ pc = "start"
    /\ stack = <<>>
    /\ ret = NoReturn
    /\ path = <<>>
    /\ issues = <<>>
    /\ outcome = NoOutcome
    /\ cbCalls = <<>>
    /\ hookLog = <<>>
    /\ turns = <<>>
    /\ ValidatorIdle

\* an unexpected exception leaves convert
Crash ==
    /\ pc' = "done"
    /\ stack' = <<>>
    /\ outcome' = Outcome("TypeError", Undefined, 0, "", <<>>)

\* convert, to the call of internalCreateInstance
Convert ==
    /\ pc = "start"
    /\ IF ~isDecoratedType(ctor)
       THEN /\ pc' = "done"
            /\ outcome' = Outcome("Error", Undefined, 0,
                 "The specified type contains invalid metadata for a type-mapper decorated type.",
                 <<>>)
            /\ UNCHANGED stack
       ELSE /\ pc' = "building"
            /\ stack' = <<NewFrame(ctor, data)>>
            /\ UNCHANGED outcome
    /\ path' = <<>>
    /\ issues' = <<>>
    /\ UNCHANGED <<ctor, data, cb, ret, cbCalls, hookLog, turns, validatorVars>>

\* internalCreateInstance, its entry: the null check
EnterInstance ==
    /\ pc = "building"
    /\ Len(stack) > 0
    /\ Top.phase = "enter"
    /\ IF IsNullish(Top.data)
       THEN /\ stack' = Pop(stack)
            /\ ret' = Returned(Top.data)
       ELSE /\ stack' = WithTop([Top EXCEPT !.phase = "params"])
            /\ UNCHANGED ret
    /\ UNCHANGED <<ctor, data, cb, pc, path, issues, outcome, cbCalls, hookLog, turns, validatorVars>>

\* the mappings a pass iterates
paramMappings(c) == IF c.paramsKind = "array" THEN c._parameters ELSE <<>>
propMappings(c) == IF c.propsKind = "object" THEN c._properties ELSE <<>>

PassLength(f) ==
    IF f.phase = "params" THEN Len(paramMappings(f.ctor)) ELSE Len(propMappings(f.ctor))
MappingAt(f) ==
    IF f.phase = "params" THEN paramMappings(f.ctor)[f.index + 1]
    ELSE propMappings(f.ctor)[f.index + 1].mapping
\* the parameter's index or the property's key
OwnRef(f) ==
    IF f.phase = "params" THEN Num(f.index)
    ELSE [t |-> "str", v |-> propMappings(f.ctor)[f.index + 1].key]

\* params[index] = val, or result[key] = val
Store(f, val) ==
    IF f.phase = "params" THEN [f EXCEPT !.params = SetParam(@, f.index, val)]
    ELSE [f EXCEPT !.result = SetField(@, TemplateString(Segment(OwnRef(f))), val)]

NextTurn(f) == [f EXCEPT !.index = @ + 1, !.await = "none", !.elems = <<>>, !.acc = <<>>]

NotFoundMessage(f) ==
    IF f.phase = "params"
    THEN "Required parameter not found: " \o RefsText(ifEmpty(MappingAt(f), OwnRef(f)))
    ELSE "Required property or field not found: " \o TemplateString(Segment(OwnRef(f)))

\* handleRecursiveMapping up to its call of internalCreateInstance:
\* "return" a value at once, "call" for a single instance, "map" the elements
handleRecursiveMapping(isArray, val, iss, p) ==
    IF isArray
    THEN IF IsNullish(val) THEN [kind |-> "return", value |-> Undefined, issues |-> iss]
         ELSE IF val.t # "arr"
         THEN [kind |-> "return", value |-> Undefined,
               issues |-> ctxError(iss, p,
                  "Expected an array but found a non array type for property " \o pathJoin(p))]
         ELSE IF Len(val.v) = 0 THEN [kind |-> "return", value |-> val, issues |-> iss]
         ELSE [kind |-> "map", value |-> val, issues |-> iss]
    ELSE [kind |-> "call", value |-> val, issues |-> iss]

\* the history entry of a turn: the references tried, the raw value found,
\* how the turn ended ("stored", "default", "notFound", "skipped", "nested", "threw"),
\* the issue list at its start and after its validations
TurnEntry(f, r, did, val) ==
    [depth |-> Len(stack), phase |-> f.phase, index |-> f.index, tried |-> r.tried,
     kind |-> r.kind, raw |-> r.raw, did |-> did, val |-> val, path |-> r.path,
     before |-> issues, validated |-> r.issues]

Logged(f, r, did, val) == turns' = Append(turns, TurnEntry(f, r, did, val))

\* the end of a turn that stored no value: the required error, or the default
Fallback(f, m, r) ==
    /\ path' = r.path
    /\ UNCHANGED <<pc, outcome>>
    /\ IF FallbackRuns(r.kind) /\ m.present /\ m.isRequired
       THEN /\ issues' = ctxError(r.issues, r.path, NotFoundMessage(f))
            /\ stack' = WithTop(NextTurn(f))
            /\ Logged(f, r, "notFound", Undefined)
       ELSE /\ issues' = r.issues
            /\ IF FallbackRuns(r.kind) /\ DefaultApplies(m)
               THEN /\ stack' = WithTop(NextTurn(Store(f, m.defaultValue)))
                    /\ Logged(f, r, "default", m.defaultValue)
               ELSE /\ stack' = WithTop(NextTurn(f))
                    /\ Logged(f, r, "skipped", Undefined)

\* the end of a turn whose value goes through handleRecursiveMapping
Recurse(f, m, r, h) ==
    /\ issues' = h.issues
    /\ UNCHANGED <<pc, outcome>>
    /\ CASE h.kind = "return" ->
              /\ stack' = WithTop(NextTurn(Store(f, h.value)))
              /\ path' = Pop(r.path)
              /\ Logged(f, r, "stored", h.value)
         [] h.kind = "call" ->
              /\ stack' = Append(WithTop([f EXCEPT !.await = "single"]),
                                 NewFrame(Types[m.mappedAs], h.value))
              /\ path' = r.path
              /\ Logged(f, r, "nested", Undefined)
         [] h.kind = "map" ->
              /\ stack' = WithTop([f EXCEPT !.await = "array", !.elems = h.value.v,
                                            !.acc = <<>>])
              /\ path' = r.path
              /\ Logged(f, r, "nested", Undefined)

\* one turn of the parameter loop or of the property loop, r being what the
\* alias loop resolved
Turn(f, m, r) ==
    CASE r.kind = "threw" ->
           /\ Crash
           /\ path' = r.path
           /\ issues' = r.issues
           /\ Logged(f, r, "threw", Undefined)
      [] r.kind = "value" ->
           /\ stack' = WithTop(NextTurn(Store(f, r.val)))
           /\ path' = r.path
           /\ issues' = r.issues
           /\ UNCHANGED <<pc, outcome>>
           /\ Logged(f, r, "stored", r.val)
      [] r.kind = "nested" ->
           Recurse(f, m, r, handleRecursiveMapping(m.isArray, r.val, r.issues, r.path))
      [] OTHER -> Fallback(f, m, r)

MapTurnOf(f, m) ==
    \E r \in {Resolve(m, ifEmpty(m, OwnRef(f)), f.data, issues, path)} : Turn(f, m, r)
MapTurn == MapTurnOf(Top, MappingAt(Top))

\* the parameter pass, one parameter
MapParameter ==
    /\ pc = "building"
    /\ Len(stack) > 0
    /\ Top.phase = "params" /\ Top.await = "none" /\ Top.index < PassLength(Top)
    /\ MapTurn
    /\ UNCHANGED <<ctor, data, cb, ret, cbCalls, hookLog, validatorVars>>

\* new ctor(...params), after the parameter pass
ConstructInstance ==
    /\ pc = "building"
    /\ Len(stack) > 0
    /\ Top.phase = "params" /\ Top.await = "none" /\ Top.index = PassLength(Top)
    /\ stack' = WithTop([Top EXCEPT !.phase = "props", !.index = 0,
                                    !.result = Construct(Top.ctor, Top.params)])
    /\ UNCHANGED <<ctor, data, cb, pc, ret, path, issues, outcome, cbCalls, hookLog,
                   turns, validatorVars>>

\* the property pass, one property
MapProperty ==
    /\ pc = "building"
    /\ Len(stack) > 0
    /\ Top.phase = "props" /\ Top.await = "none" /\ Top.index < PassLength(Top)
    /\ MapTurn
    /\ UNCHANGED <<ctor, data, cb, ret, cbCalls, hookLog, validatorVars>>

\* the callback of data.map: push the index and build the element
MapElement ==
    /\ pc = "building"
    /\ Len(stack) > 0
    /\ Top.await = "array" /\ ~ret.has /\ Len(Top.acc) < Len(Top.elems)
    /\ path' = Append(path, Num(Len(Top.acc)))
    /\ stack' = Append(stack, NewFrame(Types[MappingAt(Top).mappedAs],
                                       Top.elems[Len(Top.acc) + 1]))
    /\ UNCHANGED <<ctor, data, cb, pc, ret, issues, outcome, cbCalls, hookLog,
                   turns, validatorVars>>

\* the callback of data.map, after the element is built: pop the index
ElementMapped ==
    /\ pc = "building"
    /\ Len(stack) > 0
    /\ Top.await = "array" /\ ret.has
    /\ path' = Pop(path)
    /\ stack' = WithTop([Top EXCEPT !.acc = Append(@, ret.value)])
    /\ ret' = NoReturn
    /\ UNCHANGED <<ctor, data, cb, pc, issues, outcome, cbCalls, hookLog, turns, validatorVars>>

\* after handleRecursiveMapping returns: store the value and pop the path
NestedMapped ==
    /\ pc = "building"
    /\ Len(stack) > 0
    /\ \/ Top.await = "single" /\ ret.has
       \/ Top.await = "array" /\ ~ret.has /\ Len(Top.acc) = Len(Top.elems)
    /\ stack' = WithTop(NextTurn(Store(Top, IF Top.await = "single" THEN ret.value
                                            ELSE Arr(Top.acc))))
    /\ path' = Pop(path)
    /\ ret' = NoReturn
    /\ UNCHANGED <<ctor, data, cb, pc, issues, outcome, cbCalls, hookLog, turns, validatorVars>>

RunHooksValidateFirst(c, iss, p) ==
    RunHook(IF implementsCustomMapping(c) THEN c.mapData ELSE NoHook, "mapData",
            RunHook(IF implementsCustomValidation(c) THEN c.validate ELSE NoHook, "validate",
                    iss, p),
            p)
\* result.mapData(data, ctx) then result.validate(ctx), each if implemented
RunHooks(c, iss, p) ==
    RunHook(IF implementsCustomValidation(c) THEN c.validate ELSE NoHook, "validate",
            RunHook(IF implementsCustomMapping(c) THEN c.mapData ELSE NoHook, "mapData",
                    iss, p),
            p)

HookEntry(name, f, depth, p) ==
    [hook |-> name, cls |-> f.ctor.name, depth |-> depth, mapped |-> f.index, path |-> p]
\* the record of the hooks invoked on the instance of an activation
HookEntries(f, depth, p) ==
    (IF implementsCustomMapping(f.ctor) THEN <<HookEntry("mapData", f, depth, p)>> ELSE <<>>)
      \o (IF implementsCustomValidation(f.ctor) THEN <<HookEntry("validate", f, depth, p)>>
          ELSE <<>>)

\* the hooks, and the return of internalCreateInstance
ReturnInstance ==
    /\ pc = "building"
    /\ Len(stack) > 0
    /\ Top.phase = "props" /\ Top.await = "none" /\ Top.index = PassLength(Top)
    /\ issues' = RunHooks(Top.ctor, issues, path)
    /\ hookLog' = hookLog \o HookEntries(Top, Len(stack), path)
    /\ stack' = Pop(stack)
    /\ ret' = Returned(Top.result)
    /\ UNCHANGED <<ctor, data, cb, pc, path, outcome, cbCalls, turns, validatorVars>>

\* new ValidationError(message, ctx)
ValidationError(errors, context) ==
    Outcome("ValidationError", Undefined, Len(errors),
            "Validation failed with " \o ToString(Len(errors)) \o " errors: "
              \o JoinWith([i \in 1..Len(errors) |-> errors[i].message], ","),
            context)

\* convert without a callback: throw on error, else return the result
ThrowOnError(errors, result, context) ==
    IF ShouldThrow(errors) THEN ValidationError(errors, context)
    ELSE Outcome("returned", result, 0, "", <<>>)

\* how convert ends once the instance is built: with a callback the result is
\* returned whatever the issues; without one, errors are thrown
CompletionThrowsAnyway(hasCb, errors, result, context) == ThrowOnError(errors, result, context)
Completion(hasCb, errors, result, context) ==
    IF hasCb THEN Outcome("returned", result, 0, "", <<>>)
    ELSE ThrowOnError(errors, result, context)

\* convert, after internalCreateInstance: the callback or the aggregate failure
Complete ==
    /\ pc = "building"
    /\ Len(stack) = 0
    /\ ret.has
    /\ pc' = "done"
    /\ cbCalls' = IF cb THEN Append(cbCalls, [result |-> ret.value, issues |-> issues])
                  ELSE cbCalls
    /\ outcome' = Completion(cb, errorsOf(issues), ret.value, issues)
    /\ UNCHANGED <<ctor, data, cb, stack, ret, path, issues, hookLog, turns, validatorVars>>

Next ==
    \/ Convert
    \/ EnterInstance
    \/ MapParameter
    \/ ConstructInstance
    \/ MapProperty
    \/ MapElement
    \/ ElementMapped
    \/ NestedMapped
    \/ ReturnInstance
    \/ Complete

Spec == Init /\ [][Next]_vars

\* convert on the types with nested types alone, acyclic and
\* self-referencing
InitRecursion ==
    /\ \E sc \in AcyclicScenarios \cup CyclicScenarios :
          ctor = sc.ctor /\ data = sc.data /\ cb = sc.cb
    /\ pc = "start"
    /\ stack = <<>>
    /\ ret = NoReturn
    /\ path = <<>>
    /\ issues = <<>>
    /\ outcome = NoOutcome
    /\ cbCalls = <<>>
    /\ hookLog = <<>>
    /\ turns = <<>>
    /\ ValidatorIdle

\* convert is one synchronous call: a step that can be taken is taken
SpecRecursion == InitRecursion /\ [][Next]_vars /\ WF_vars(Next)

----------------------------------------------------------------------------
(* Validator chains run on their own: a validations list is invoked on a   *)
(* value with a fresh ValidationContext.                                   *)

RECURSIVE Refinements(_, _, _)
\* the chains got from the bases by at most n refine() calls with the stages
Refinements(bases, stages, n) ==
    IF n = 0 THEN bases
    ELSE LET shorter == Refinements(bases, stages, n - 1)
         IN shorter \cup {refine(c, st) : c \in shorter, st \in stages}

StringStages ==
    {FnMaxLength(1, error), FnMinLength(5, error), FnEnum({"one", "two"}, error),
     FnMaxLength(1, warn)}
NumberStages == {FnMax(10, error), FnMin(5, error)}
CustomStages == {FnCustom(info), FnCustom(warn), FnCustom(error), FnNoop}

\* isString() and nullable().isString() with their fluent constraints
StringChains == Refinements({isString, nullableIsString}, StringStages, MaxStages)
\* isNumber(), isNumber(true) and nullable().isNumber() with their fluent constraints
NumberChains ==
    Refinements({isNumber(FALSE), isNumber(TRUE), nullableIsNumber}, NumberStages, MaxStages)
\* chains of the user's own functions, refined with refine()
CustomChains ==
    Refinements({makeValidatorChain(fn, ign) : fn \in CustomStages, ign \in BOOLEAN},
                CustomStages, MaxStages)
Chains == StringChains \cup NumberChains \cup CustomChains

ChainValues ==
    {Undefined, Null, NaN, Str(""), Str("two"), Str("sixsix"), Num(42), Num(7), Num(-1)}

\* another chain of the same validations list
SiblingChain == minLength(isString, 5, error)

ValidationLists ==
    {<<c>> : c \in Chains} \cup {<<c, SiblingChain>> : c \in Chains}
      \cup {<<SiblingChain, c>> : c \in Chains}

FreshContext == Context(<<>>, <<>>)

MapperIdle ==
    /\ ctor = PlainType /\ data = Undefined /\ cb = FALSE
    /\ pc = "idle"
    /\ stack = <<>>
    /\ ret = NoReturn
    /\ path = <<>>
    /\ issues = <<>>
    /\ outcome = NoOutcome
    /\ cbCalls = <<>>
    /\ hookLog = <<>>
    /\ turns = <<>>

InitChain ==
    /\ MapperIdle
    /\ vIn \in [validations : ValidationLists, value : ChainValues]
    /\ vOut = FreshContext
    /\ vpc = "ready"

\* chain(value, ctx) on a ValidationContext
InvokeChain ==
    /\ vpc = "ready"
    /\ Len(vIn.validations) = 1
    /\ vOut' = validate(vIn.validations[1], vIn.value, FreshContext)
    /\ vpc' = "invoked"
    /\ UNCHANGED <<vIn, mapperVars>>

\* Validator.validateValue(validations, value, context)
ValidateValue ==
    /\ vpc = "ready"
    /\ vOut' = validateValue(vIn.validations, vIn.value, FreshContext)
    /\ vpc' = "validated"
    /\ UNCHANGED <<vIn, mapperVars>>

NextChain == InvokeChain \/ ValidateValue

SpecChain == InitChain /\ [][NextChain]_vars

----------------------------------------------------------------------------
(* Properties of convert.                                                  *)

\* the number of error-level issues of the diagnostics, counted on the list
ErrorCount == Cardinality({i \in 1..Len(issues) : issues[i].level = error})

\* the instance graph is built and convert has ended
Built == pc = "done" /\ ret.has

\* the turns of the top-level activation
TopTurns == {i \in 1..Len(turns) : turns[i].depth = 1}
\* the mapping a top-level turn was about
TurnMapping(e) ==
    IF e.phase = "params" THEN paramMappings(ctor)[e.index + 1]
    ELSE propMappings(ctor)[e.index + 1].mapping
\* the declared aliases that are keys of the input, read off the input
PresentAliases(m) ==
    {i \in 1..Len(m.aliases) : data.t = "obj" /\ Concat(m.aliases[i]) \in DOMAIN data.v}
FirstPresent(m) == CHOOSE i \in PresentAliases(m) : \A j \in PresentAliases(m) : i <= j
\* a top-level turn of a mapping with declared aliases, each a plain key, on
\* an object input
AliasTurn(e) ==
    /\ TurnMapping(e).present
    /\ Len(TurnMapping(e).aliases) > 0
    /\ \A j \in 1..Len(TurnMapping(e).aliases) :
          \A k \in 1..Len(TurnMapping(e).aliases[j]) : TurnMapping(e).aliases[j][k] # "."
    /\ data.t = "obj"
\* what the built instance holds for the parameter or property of a turn
Held(e) ==
    IF e.phase = "params" THEN ret.value.v.args[e.index + 1]
    ELSE ret.value.v.fields[Concat(propMappings(ctor)[e.index + 1].key)]
PlainMapping(m) ==
    m.preValidationTransform = "none" /\ m.transform = "none" /\ m.mappedAs = "none"

\* C1: once the instance graph is built, convert without a callback raises
\* the aggregate ValidationError exactly when the diagnostics hold an
\* error-level issue; the failure states the number of error-level issues and
\* carries all the issues; otherwise convert returns the instance.
C1_AggregateFailureIffError ==
    (Built /\ ~cb) =>
       /\ outcome.kind \in {"ValidationError", "returned"}
       /\ (outcome.kind = "ValidationError") <=> (ErrorCount > 0)
       /\ (outcome.kind = "ValidationError") =>
             /\ outcome.count = ErrorCount
             /\ outcome.message =
                  "Validation failed with " \o ToString(ErrorCount) \o " errors: "
                    \o JoinWith([i \in 1..Len(errorsOf(issues)) |-> errorsOf(issues)[i].message], ",")
             /\ outcome.context = issues
       /\ (outcome.kind = "returned") => outcome.value = ret.value

\* errors of nested instances and hooks, with issues of lower levels, thrown
C1_Witness ==
    /\ Built /\ ~cb
    /\ outcome.kind = "ValidationError"
    /\ outcome.count >= 2
    /\ Len(outcome.context) > outcome.count
    /\ \E i \in 1..Len(hookLog) : hookLog[i].depth > 1

\* C2: a supplied callback is invoked exactly once, after the whole instance
\* graph is built, with the instance and the diagnostics of the call; convert
\* then returns that instance and never raises the aggregate failure; no
\* callback is invoked while instances are being built.
C2_CallbackOnceAtEnd ==
    /\ Len(cbCalls) <= 1
    /\ (pc # "done") => cbCalls = <<>>
    /\ (Len(cbCalls) = 1) =>
          /\ cb /\ Built /\ stack = <<>>
          /\ cbCalls[1].result = ret.value
          /\ cbCalls[1].issues = issues
    /\ (Built /\ cb) =>
          /\ Len(cbCalls) = 1
          /\ outcome.kind = "returned"
          /\ outcome.value = cbCalls[1].result
    /\ (Built /\ ~cb) => cbCalls = <<>>

\* a call with a callback that built nested instances and gathered errors
C2_Witness ==
    /\ Built /\ cb
    /\ Len(cbCalls) = 1
    /\ ErrorCount >= 2
    /\ outcome.kind = "returned"
    /\ \E i \in 1..Len(turns) : turns[i].depth > 1

\* C3: of the declared aliases, the first one in declared order that is a
\* key of the input is the one whose value is used: the alias loop asks for
\* the aliases in declared order and stops at it, also when its value then
\* fails validation; when no alias is a key of the input, all were asked.
C3_FirstPresentAliasWins ==
    \A i \in TopTurns :
       AliasTurn(turns[i]) =>
          IF PresentAliases(TurnMapping(turns[i])) = {}
          THEN /\ turns[i].kind = "unmapped"
               /\ Len(turns[i].tried) = Len(TurnMapping(turns[i]).aliases)
               /\ \A j \in 1..Len(turns[i].tried) :
                     turns[i].tried[j].v = TurnMapping(turns[i]).aliases[j]
          ELSE /\ Len(turns[i].tried) = FirstPresent(TurnMapping(turns[i]))
               /\ \A j \in 1..Len(turns[i].tried) :
                     turns[i].tried[j].v = TurnMapping(turns[i]).aliases[j]
               /\ turns[i].raw =
                     data.v[Concat(TurnMapping(turns[i]).aliases[FirstPresent(TurnMapping(turns[i]))])]
               /\ turns[i].kind \in {"value", "invalid", "nested", "threw"}
               /\ (turns[i].did = "stored" /\ PlainMapping(TurnMapping(turns[i])))
                     => turns[i].val = turns[i].raw
               /\ (Built /\ turns[i].did = "stored" /\ PlainMapping(TurnMapping(turns[i])))
                     => Held(turns[i]) = turns[i].raw

\* both aliases are keys of the input with different values, the second
\* declared one being "a": the value under "b" was taken, and failed validation
C3_Witness ==
    /\ Built
    /\ \E i \in TopTurns :
          /\ AliasTurn(turns[i])
          /\ TurnMapping(turns[i]).aliases = <<B, A>>
          /\ PresentAliases(TurnMapping(turns[i])) = {1, 2}
          /\ data.v["a"] = Str("two") /\ data.v["b"] = Num(42)
          /\ turns[i].kind = "invalid"
          /\ turns[i].tried = <<[t |-> "str", v |-> B]>>

\* the value under the later alias is stored when the earlier one is absent
C3_WitnessLater ==
    /\ Built
    /\ \E i \in TopTurns :
          /\ AliasTurn(turns[i])
          /\ TurnMapping(turns[i]).aliases = <<A, B>>
          /\ PresentAliases(TurnMapping(turns[i])) = {2}
          /\ turns[i].did = "stored"
          /\ Held(turns[i]) = Str("two")

\* C4: a declared default is applied only when none of the aliases is a key
\* of the input, also when the resolved value produced a validation error.
C4_DefaultOnlyWhenUnresolved ==
    \A i \in TopTurns :
       (AliasTurn(turns[i]) /\ turns[i].did = "default")
          => PresentAliases(TurnMapping(turns[i])) = {}

\* C5: for a required field or parameter the 'Required ... not found' error
\* is emitted exactly when no alias is a key of the input; then it is the one
\* error of the field and no default is applied.
C5_NotFoundIffAbsent ==
    \A i \in TopTurns :
       (AliasTurn(turns[i]) /\ TurnMapping(turns[i]).isRequired) =>
          /\ (turns[i].did = "notFound") <=> (PresentAliases(TurnMapping(turns[i])) = {})
          /\ (PresentAliases(TurnMapping(turns[i])) = {}) =>
                (Built => ErrorCount = 1)

\* C6: a non-required field or parameter with a declared default d and no
\* alias among the keys of the input receives d, whatever d is, and no issue
\* is emitted.
C6_DefaultReceived ==
    \A i \in TopTurns :
       (/\ AliasTurn(turns[i])
        /\ ~TurnMapping(turns[i]).isRequired
        /\ TurnMapping(turns[i]).defaultValue # Undefined
        /\ PresentAliases(TurnMapping(turns[i])) = {}) =>
          /\ turns[i].did = "default"
          /\ turns[i].val = TurnMapping(turns[i]).defaultValue
          /\ Built => (Held(turns[i]) = TurnMapping(turns[i]).defaultValue /\ issues = <<>>)

\* the one property is validated by nullable().isString() alone and the
\* input holds null under its alias
NullableStringField ==
    /\ ctor.propsKind = "object"
    /\ Len(ctor._properties) = 1
    /\ ctor._properties[1].mapping.validations = <<nullableIsString>>
    /\ PlainMapping(ctor._properties[1].mapping)
    /\ ctor._properties[1].mapping.aliases = <<A>>
    /\ data = Obj("a" :> Null)

\* C10, as stated: the field given null keeps its initializer value.
C10_NullLeavesInitializer ==
    (NullableStringField /\ Built) =>
       /\ issues = <<>>
       /\ ret.value.v.fields["x"] = ctor.fields["x"]

\* C10: a field validated by nullable().isString() and given null ends
\* conversion with zero issues and holds null, the input value, in place of
\* its initializer value.
C10_NullStored ==
    (NullableStringField /\ Built) =>
       /\ issues = <<>>
       /\ ret.value.v.fields["x"] = Null
       /\ ret.value.v.fields["x"] # ctor.fields["x"]
       /\ outcome.kind = "returned"

C10_Witness ==
    /\ NullableStringField /\ Built
    /\ ctor.fields["x"] = Str("init")
    /\ \E i \in TopTurns : turns[i].did = "stored" /\ turns[i].raw = Null

----------------------------------------------------------------------------
(* Properties of validator chains.                                         *)

RECURSIVE StagesOf(_)
\* the stage functions of a chain, in the order the builder methods were invoked
StagesOf(chain) ==
    IF chain.k = "base" THEN <<chain.fn>>
    ELSE Append(StagesOf(chain.chain), chain.next)

\* the stage functions a run invoked, in order
RanFns(ctx) == [i \in 1..Len(ctx.ran) |-> ctx.ran[i].fn]

\* the greatest level among issues, NoSeverity when there are none
MaxLevel(iss) ==
    IF \E i \in 1..Len(iss) : iss[i].level = error THEN error
    ELSE IF \E i \in 1..Len(iss) : iss[i].level = warn THEN warn
    ELSE IF Len(iss) > 0 THEN info
    ELSE NoSeverity

ErrorsIn(iss) == {i \in 1..Len(iss) : iss[i].level = error}

\* whether a stage function reports an error-level issue on a value
ReportsError(fn, value) ==
    \E i \in 1..Len(Reports(fn, value)) : Reports(fn, value)[i][1] = error

\* the position of the earliest stage reporting an error, 0 when none does
FirstFailing(stages, value) ==
    IF \E i \in 1..Len(stages) : ReportsError(stages[i], value)
    THEN CHOOSE i \in 1..Len(stages) :
           /\ ReportsError(stages[i], value)
           /\ \A j \in 1..(i - 1) : ~ReportsError(stages[j], value)
    ELSE 0

\* the stages that should run: none on a skipped value, else those up to
\* and including the earliest failing one
GatedStages(stages, value, skipped, failing) ==
    IF skipped THEN <<>>
    ELSE IF failing = 0 THEN stages
    ELSE SubSeq(stages, 1, failing)
ExpectedRun(chain, value) ==
    GatedStages(StagesOf(chain), value, chain.ignoreNull /\ IsNullish(value),
                FirstFailing(StagesOf(chain), value))

RECURSIVE ExpectedRuns(_, _)
ExpectedRuns(validations, value) ==
    IF Len(validations) = 0 THEN <<>>
    ELSE ExpectedRun(validations[1], value) \o ExpectedRuns(Tail(validations), value)

RECURSIVE BaseOf(_)
BaseOf(chain) == IF chain.k = "base" THEN chain ELSE BaseOf(chain.chain)

\* a fluent chain of the built-in families
BuiltIn(chain) ==
    BaseOf(chain).fn.f \in {"isString", "isNumber", "nullable.isString", "nullable.isNumber"}

\* the issues a stage function adds on the root path
IssuesOf(fn, value) ==
    [i \in 1..Len(Reports(fn, value)) |->
       ValidationIssue("", Reports(fn, value)[i][1], Reports(fn, value)[i][2])]

\* the refined chain ran C, as cOut, first, and then N exactly when C's
\* issues stay below error
RefinedAfter(chain, value, out, cOut) ==
    IF MaxLevel(cOut.issues) # error
    THEN /\ out.ran = Append(cOut.ran, [fn |-> chain.next, value |-> value])
         /\ out.issues = cOut.issues \o IssuesOf(chain.next, value)
    ELSE /\ out.ran = cOut.ran
         /\ out.issues = cOut.issues

\* C7: a chain C refined with a stage N, invoked on a value it does not
\* skip, runs C first and then N on the same value exactly when the
\* greatest level of the issues C reported is not error.
C7_RefineGatesOnError ==
    (/\ vpc = "invoked"
     /\ vIn.validations[1].k = "refine"
     /\ ~(vIn.validations[1].ignoreNull /\ IsNullish(vIn.value))) =>
       RefinedAfter(vIn.validations[1], vIn.value, vOut,
                    validate(vIn.validations[1].chain, vIn.value, FreshContext))

\* C reported a warning and N ran after it, reporting an error
C7_Witness ==
    /\ vpc = "invoked"
    /\ vIn.validations[1].k = "refine"
    /\ Len(vOut.ran) = 3
    /\ Len(vOut.issues) = 2
    /\ vOut.issues[1].level = warn
    /\ vOut.issues[2].level = error
    /\ vOut.ran[3] = [fn |-> vIn.validations[1].next, value |-> vIn.value]

\* C8: a fluent chain of the built-in families runs its stages in builder
\* order up to and including the earliest stage that reports an error, and
\* no later one, so one invocation reports at most one error-level issue;
\* every chain of a validations list runs so, whatever the others reported.
C8_StagesInOrderGated ==
    /\ (vpc = "invoked" /\ BuiltIn(vIn.validations[1])) =>
          /\ RanFns(vOut) = ExpectedRun(vIn.validations[1], vIn.value)
          /\ \A i \in 1..Len(vOut.ran) : vOut.ran[i].value = vIn.value
          /\ Cardinality(ErrorsIn(vOut.issues)) <= 1
          /\ Cardinality(ErrorsIn(vOut.issues)) = 1 =>
                vOut.issues[Len(vOut.issues)].level = error
    /\ (vpc = "validated" /\ \A i \in 1..Len(vIn.validations) : BuiltIn(vIn.validations[i])) =>
          /\ RanFns(vOut) = ExpectedRuns(vIn.validations, vIn.value)
          /\ Cardinality(ErrorsIn(vOut.issues)) <= Len(vIn.validations)

\* isString().maxLength(1).minLength(5) on "two" reports the maxLength issue
\* alone, and the chain after it in the list still runs and reports its own
C8_Witness ==
    /\ vpc = "validated"
    /\ vIn.validations = <<minLength(maxLength(isString, 1, error), 5, error), SiblingChain>>
    /\ vIn.value = Str("two")
    /\ Len(vOut.issues) = 2
    /\ vOut.issues[1].message = "Maximum length exceeded (max: 1, actual: 3)"
    /\ vOut.issues[2].message = "Minimum length violated (max: 5, actual: 3)"
    /\ maximumSeverity(vOut) = error

\* C9: a chain built from nullable().isString() or nullable().isNumber(),
\* with any fluent constraints, reports no issue on null or undefined;
\* nullable().isString() on a non-null value that is no string reports
\* exactly one issue, the error-level type mismatch.
C9_NullableSkipsNull ==
    (vpc \in {"invoked", "validated"} /\ Len(vIn.validations) = 1) =>
       /\ (/\ BaseOf(vIn.validations[1]).fn.f \in {"nullable.isString", "nullable.isNumber"}
           /\ IsNullish(vIn.value)) =>
             vOut.issues = <<>> /\ vOut.ran = <<>>
       /\ (/\ vIn.validations[1] = nullableIsString
           /\ ~IsNullish(vIn.value)
           /\ vIn.value.t # "str") =>
             vOut.issues =
               <<ValidationIssue("", error,
                                 "Expected type string, but found: " \o TypeOf(vIn.value))>>

\* nullable().isString() with two further constraints, invoked on null
C9_Witness ==
    /\ vpc = "invoked"
    /\ BaseOf(vIn.validations[1]).fn.f = "nullable.isString"
    /\ Len(StagesOf(vIn.validations[1])) = 3
    /\ vIn.value = Null
    /\ vOut.issues = <<>>

----------------------------------------------------------------------------
(* Properties of the passes over parameters and properties.                *)

\* the built instance holds, for the parameter or property of a turn, what
\* construction alone gave it: no argument, or the initializer value
KeepsInitial(e) ==
    IF e.phase = "params"
    THEN \/ Len(ret.value.v.args) < e.index + 1
         \/ ret.value.v.args[e.index + 1] = Undefined
    ELSE Held(e) = ctor.fields[Concat(propMappings(ctor)[e.index + 1].key)]

\* the turns of the activations nested below the top-level one
NestedTurns == {i \in 1..Len(turns) : turns[i].depth > 1}

\* C11: a validation error on a field or parameter suppresses that field's
\* transform, nested recursion and assignment, the field keeping its
\* constructor or initializer value; every other parameter and property is
\* still processed and assigned, the instance is constructed and the
\* callback receives it.
C11_ErrorIsolatedToField ==
    (Built /\ ~IsNullish(data)) =>
       /\ Cardinality(TopTurns) = Len(paramMappings(ctor)) + Len(propMappings(ctor))
       /\ \A i \in TopTurns :
             /\ (turns[i].kind = "invalid") =>
                   /\ turns[i].did \in {"skipped", "notFound"}
                   /\ KeepsInitial(turns[i])
             /\ (turns[i].kind = "value") =>
                   /\ turns[i].did = "stored"
                   /\ Held(turns[i]) = turns[i].val
       /\ ret.value.t = "inst"
       /\ cb => (Len(cbCalls) = 1 /\ cbCalls[1].result = ret.value)

\* the path rule: a numeric segment is "[n]", a string segment is itself,
\* after a "." unless it comes first
FormatSegment(i, seg) ==
    IF seg.t = "num" THEN "[" \o ToString(seg.v) \o "]"
    ELSE IF i = 1 THEN seg.v
    ELSE "." \o seg.v
FormatPath(segs) == JoinWith([i \in 1..Len(segs) |-> FormatSegment(i, segs[i])], "")

\* the path stacks under which building an instance of a nested type from d
\* reports, in order: Inner validates its field b, InnerHooked reports from
\* its two hooks
InstanceStacks(type, d, prefix) ==
    IF IsNullish(d) THEN <<>>
    ELSE IF type = "InnerHooked" THEN <<prefix, prefix>>
    ELSE IF d.t = "obj" /\ "b" \in DOMAIN d.v /\ d.v["b"].t # "str"
    THEN <<Append(prefix, Str("b"))>>
    ELSE <<>>

RECURSIVE ElementStacks(_, _, _, _)
ElementStacks(type, elems, i, prefix) ==
    IF i > Len(elems) THEN <<>>
    ELSE InstanceStacks(type, elems[i], Append(prefix, Num(i - 1)))
           \o ElementStacks(type, elems, i + 1, prefix)

\* the path stacks under which a nested-type field under alias "a" reports
FieldStacks(m, d) ==
    IF "a" \notin DOMAIN d.v THEN <<>>
    ELSE IF ~m.isArray THEN InstanceStacks(m.mappedAs, d.v["a"], <<Str("a")>>)
    ELSE IF IsNullish(d.v["a"]) THEN <<>>
    ELSE IF d.v["a"].t # "arr" THEN << <<Str("a")>> >>
    ELSE ElementStacks(m.mappedAs, d.v["a"].v, 1, <<Str("a")>>)

HookStacks(c) ==
    (IF c.mapData.has /\ c.mapData.level # NoSeverity THEN << <<>> >> ELSE <<>>)
      \o (IF c.validate.has /\ c.validate.level # NoSeverity THEN << <<>> >> ELSE <<>>)

\* the one mapping of the target type
OnlyMapping == (paramMappings(ctor) \o [i \in 1..Len(propMappings(ctor)) |-> propMappings(ctor)[i].mapping])[1]
\* a target type whose one parameter or property is of a nested type
NestedField ==
    /\ Len(paramMappings(ctor)) + Len(propMappings(ctor)) = 1
    /\ OnlyMapping.present
    /\ OnlyMapping.mappedAs # "none"
    /\ OnlyMapping.validations = <<>>
    /\ data.t = "obj"

ExpectedStacks == FieldStacks(OnlyMapping, data) \o HookStacks(ctor)

\* C12: every issue's path is the path stack of the moment it was reported,
\* formatted with string segments joined by "." except the first and numeric
\* segments as "[n]": "a.b" for field b of the nested object under a,
\* "a[i].b" for field b of element i of the array under a.
C12_IssuePathFormatsStack ==
    /\ pathString(path) = FormatPath(path)
    /\ (Built /\ NestedField) =>
          [i \in 1..Len(issues) |-> issues[i].path]
            = [i \in 1..Len(ExpectedStacks) |-> FormatPath(ExpectedStacks[i])]

\* errors on field b of both elements of the array under a, and a hook's
\* issue on the top-level instance
C12_Witness ==
    /\ Built /\ NestedField
    /\ Len(issues) = 3
    /\ issues[1].path = "a[0].b"
    /\ issues[2].path = "a[1].b"
    /\ issues[3].path = ""

\* an error on field b of the nested object under a
C12_WitnessNested ==
    /\ Built /\ NestedField
    /\ ~OnlyMapping.isArray
    /\ Len(issues) = 1
    /\ issues[1].path = "a.b"

\* the nested-type field is in array mode and the input holds, under its
\* alias, a value that is neither null, undefined nor an array
ArrayFieldGivenNonArray ==
    /\ NestedField
    /\ OnlyMapping.isArray
    /\ "a" \in DOMAIN data.v
    /\ ~IsNullish(data.v["a"])
    /\ data.v["a"].t # "arr"

\* the one shape error, then whatever the hooks of the top-level instance report
ShapeErrorReported ==
    /\ Len(issues) = 1 + Len(HookStacks(ctor))
    /\ issues[1] = ValidationIssue("a", error,
                     "Expected an array but found a non array type for property a")
    /\ NestedTurns = {}
    /\ \A i \in 1..Len(hookLog) : hookLog[i].depth = 1

\* C13: an array-mode nested field given a value that is no array emits
\* exactly one error, 'Expected an array but found a non array type for
\* property <path>', at the field's own path, maps no element and leaves the
\* field unresolved: nothing is assigned to it.
C13_NonArrayLeavesFieldUnresolved ==
    (Built /\ ArrayFieldGivenNonArray) =>
       /\ ShapeErrorReported
       /\ \A i \in TopTurns : KeepsInitial(turns[i])

\* a descriptor with a mapping collection of the wrong shape
Malformed(c) == c.paramsKind = "other" \/ c.propsKind = "other"

\* C14: convert raises the structural error at once, before constructing an
\* instance and without recording an issue, when _parameters is present and
\* no array or _properties is present and no object; a descriptor whose
\* collections are absent is accepted.
C14_MalformedDescriptorRejected ==
    (pc # "start") =>
       /\ Malformed(ctor) =>
             /\ pc = "done"
             /\ outcome.kind = "Error"
             /\ issues = <<>> /\ turns = <<>> /\ ~ret.has
       /\ ~Malformed(ctor) => outcome.kind # "Error"

\* a target type with no declared mappings: neither collection is present
NoDeclaredMappings(c) == c.paramsKind = "absent" /\ c.propsKind = "absent"

\* what a no-argument construction of the target type yields
NoArgumentInstance == Inst([cls |-> ctor.name, args |-> <<>>, fields |-> ctor.fields])

\* the issues the hooks of the top-level instance report, mapData's first
OwnHookIssues ==
    (IF ctor.mapData.has /\ ctor.mapData.level # NoSeverity
     THEN <<ValidationIssue("", ctor.mapData.level, "mapData")>> ELSE <<>>)
      \o (IF ctor.validate.has /\ ctor.validate.level # NoSeverity
          THEN <<ValidationIssue("", ctor.validate.level, "validate")>> ELSE <<>>)

\* C15, as stated: for a target type with no declared mappings and every
\* input, convert returns an instance built by a no-argument construction
\* and the diagnostics hold no issue.
C15_AlwaysInstanceNoIssue ==
    (pc = "done" /\ NoDeclaredMappings(ctor)) =>
       /\ outcome.kind = "returned"
       /\ outcome.value = NoArgumentInstance
       /\ issues = <<>>

\* C15: for a target type with no declared mappings, an input other than
\* null and undefined yields an instance built by a no-argument construction,
\* with no issue but those its own hooks report, which convert returns
\* unless a hook reported an error and no callback was given; a null or
\* undefined input is returned unchanged, with no issue.
C15_InstanceUnlessNullish ==
    (pc = "done" /\ NoDeclaredMappings(ctor)) =>
       IF IsNullish(data)
       THEN /\ outcome.kind = "returned"
            /\ outcome.value = data
            /\ issues = <<>>
            /\ hookLog = <<>>
       ELSE /\ ret.value = NoArgumentInstance
            /\ issues = OwnHookIssues
            /\ IF ~cb /\ ErrorCount > 0 THEN outcome.kind = "ValidationError"
               ELSE outcome.kind = "returned" /\ outcome.value = NoArgumentInstance

\* a type with no mappings and no hooks, built from a scalar input
C15_Witness ==
    /\ pc = "done" /\ NoDeclaredMappings(ctor)
    /\ ctor.name = "Plain"
    /\ data = Num(42)
    /\ outcome.kind = "returned"
    /\ outcome.value.v.fields["x"] = Str("init")
    /\ issues = <<>>

----------------------------------------------------------------------------
(* Properties of the hooks, the path stack and null data.                  *)

\* the target type of a class name
ClassNamed(n) == IF n = ctor.name THEN ctor ELSE Types[n]

\* whether the instances of a class have the hook
HasHook(c, h) == IF h = "mapData" THEN c.mapData.has ELSE c.validate.has
\* the level a hook of a class reports at
HookLevel(c, h) == IF h = "mapData" THEN c.mapData.level ELSE c.validate.level

RECURSIVE HookedInstances(_, _)
RECURSIVE HookedAmong(_, _)
\* the instances of the value v, nested ones included, whose class has hook h
HookedInstances(v, h) ==
    CASE v.t = "inst" ->
           (IF HasHook(ClassNamed(v.v.cls), h) THEN 1 ELSE 0)
             + HookedAmong(v.v.args, h)
             + HookedAmong([i \in 1..3 |->
                              IF <<"x", "y", "b">>[i] \in DOMAIN v.v.fields
                              THEN v.v.fields[<<"x", "y", "b">>[i]] ELSE Undefined], h)
      [] v.t = "arr" -> HookedAmong(v.v, h)
      [] OTHER -> 0
HookedAmong(vs, h) ==
    IF Len(vs) = 0 THEN 0 ELSE HookedInstances(vs[1], h) + HookedAmong(Tail(vs), h)

HookCalls(h) == {i \in 1..Len(hookLog) : hookLog[i].hook = h}

\* the hook invocations that report, as the issues they leave
ReportingCalls ==
    SelectSeq(hookLog, LAMBDA e : HookLevel(ClassNamed(e.cls), e.hook) # NoSeverity)
HookIssues == SelectSeq(issues, LAMBDA i : i.message \in {"mapData", "validate"})

\* C16: on every instance the engine constructs, mapData is invoked only
\* after all its parameter and property mappings were processed and validate
\* after mapData, each at most once per instance and only where the instance
\* has the hook; an instance lacking a hook raises nothing on that account.
C16_HooksAfterMappingsInOrder ==
    /\ \A i \in 1..Len(hookLog) :
          /\ HasHook(ClassNamed(hookLog[i].cls), hookLog[i].hook)
          /\ hookLog[i].mapped = Len(propMappings(ClassNamed(hookLog[i].cls)))
          /\ (hookLog[i].hook = "validate" /\ HasHook(ClassNamed(hookLog[i].cls), "mapData")) =>
                /\ i > 1
                /\ hookLog[i - 1] = [hookLog[i] EXCEPT !.hook = "mapData"]
    /\ [i \in 1..Len(HookIssues) |-> <<HookIssues[i].message, HookIssues[i].path>>]
         = [i \in 1..Len(ReportingCalls) |->
              <<ReportingCalls[i].hook, FormatPath(ReportingCalls[i].path)>>]
    /\ Built =>
          /\ Cardinality(HookCalls("mapData")) = HookedInstances(ret.value, "mapData")
          /\ Cardinality(HookCalls("validate")) = HookedInstances(ret.value, "validate")
    /\ (outcome.kind = "TypeError") =>
          (turns # <<>> /\ turns[Len(turns)].did = "threw")

\* two array elements with both hooks below a top-level instance with one
C16_Witness ==
    /\ Built
    /\ Len(hookLog) = 5
    /\ hookLog[1].hook = "mapData" /\ hookLog[2].hook = "validate"
    /\ hookLog[1].depth = 2 /\ hookLog[4].depth = 2
    /\ hookLog[5].hook = "validate" /\ hookLog[5].depth = 1
    /\ Len(HookIssues) = 5

\* the segment pushed for the nested mapping the activation at position k waits for
PushedSegment(k) ==
    Segment(FoundRef(turns[CHOOSE i \in 1..Len(turns) :
                             /\ turns[i].depth = k /\ turns[i].did = "nested"
                             /\ \A j \in (i + 1)..Len(turns) :
                                   ~(turns[j].depth = k /\ turns[j].did = "nested")]))

\* the segments the activation at position k holds on the path stack: that
\* of the field whose nested mapping is under way and, in array mode, the
\* index of the element under way
SegmentsOf(k) ==
    IF stack[k].await = "none" THEN <<>>
    ELSE IF stack[k].await = "single" THEN <<PushedSegment(k)>>
    ELSE IF k < Len(stack) \/ ret.has THEN <<PushedSegment(k), Num(Len(stack[k].acc))>>
    ELSE <<PushedSegment(k)>>

RECURSIVE SegmentsUpTo(_)
SegmentsUpTo(k) == IF k = 0 THEN <<>> ELSE SegmentsUpTo(k - 1) \o SegmentsOf(k)

\* C17: pushes and pops of the path stack balance: between the turns of an
\* activation the stack is what it was at the entry of that activation - the
\* segments of the fields and elements under way in the enclosing
\* activations, none of a sibling - whichever way a turn ended, and it is
\* empty when the top-level construction has returned.
C17_PathStackBalanced ==
    /\ (pc = "building") => path = SegmentsUpTo(Len(stack))
    /\ Built => path = <<>>

\* the second element of an array is being built after the first one had a
\* validation error
C17_Witness ==
    /\ pc = "building"
    /\ Len(stack) = 2
    /\ Top.phase = "props" /\ Top.index = 0 /\ Top.await = "none"
    /\ path = <<Str("a"), Num(1)>>
    /\ \E i \in NestedTurns : turns[i].kind = "invalid"

\* the nested-type field resolves to null or to undefined
NestedFieldGivenNullish ==
    /\ NestedField
    /\ "a" \in DOMAIN data.v
    /\ IsNullish(data.v["a"])

\* C18: null or undefined given to instance building, at the top level or as
\* the resolved value of a nested-type field in single or in array mode, is
\* returned unchanged for that position: no instance is constructed, no hook
\* invoked and no issue recorded.
C18_NullishReturnedUnchanged ==
    /\ (Built /\ IsNullish(data)) =>
          /\ outcome.kind = "returned" /\ outcome.value = data
          /\ hookLog = <<>> /\ turns = <<>> /\ issues = <<>>
    /\ (Built /\ NestedFieldGivenNullish) =>
          /\ \A i \in TopTurns : Held(turns[i]) = data.v["a"]
          /\ NestedTurns = {}
          /\ \A i \in 1..Len(hookLog) : hookLog[i].depth = 1
          /\ issues = OwnHookIssues

\* C19: a sparse entry of the parameter-mapping list is 'no mapping': for
\* every input, one holding a value at the parameter's index included,
\* convert completes without an unexpected failure, the parameter resolved by
\* its own index as the single alias and the found value, or undefined,
\* passed to the constructor at that position.
C19_SparseParameterByIndex ==
    (pc = "done" /\ ctor = SparseParamType /\ data.t \in {"obj", "arr"}) =>
       /\ outcome.kind = "returned"
       /\ turns[1].tried = <<Num(0)>>
       /\ IF HasKey(Num(0), data)
          THEN ret.value.v.args[1] = GetKey(Num(0), data)
          ELSE KeepsInitial(turns[1])

----------------------------------------------------------------------------
(* A tracking wrapper used on its own: info, warn, error and addIssue are  *)
(* called on the innermost of some nested TrackingValidationContext        *)
(* wrappers of one ValidationContext.                                      *)

\* a call as the history keeps it: the method, its level and message, and
\* the number of wrappers it went through
TrackedCall(method, level, message) ==
    [method |-> method, level |-> level, message |-> message,
     depth |-> Len(vOut.trackers)]

InitTracking ==
    /\ MapperIdle
    /\ vIn = [calls |-> <<>>]
    /\ vOut = Wrap(FreshContext)
    /\ vpc = "tracking"

\* the message of the next call
NextMessage == "m" \o ToString(Len(vIn.calls) + 1)

\* what a call of a method with a level does to the wrappers and the sink
Tracked(method, level) ==
    /\ vOut' = addIssue(vOut, level, NextMessage)
    /\ vIn' = [calls |-> Append(vIn.calls, TrackedCall(method, level, NextMessage))]

\* TrackingValidationContext.info(message)
CallInfo ==
    /\ vpc = "tracking"
    /\ Len(vIn.calls) < MaxCalls
    /\ Tracked("info", info)
    /\ UNCHANGED <<vpc, mapperVars>>

\* TrackingValidationContext.warn(message)
CallWarn ==
    /\ vpc = "tracking"
    /\ Len(vIn.calls) < MaxCalls
    /\ Tracked("warn", warn)
    /\ UNCHANGED <<vpc, mapperVars>>

\* TrackingValidationContext.error(message)
CallError ==
    /\ vpc = "tracking"
    /\ Len(vIn.calls) < MaxCalls
    /\ Tracked("error", error)
    /\ UNCHANGED <<vpc, mapperVars>>

\* TrackingValidationContext.addIssue(level, message)
CallAddIssue ==
    /\ vpc = "tracking"
    /\ Len(vIn.calls) < MaxCalls
    /\ \E level \in IssueLevels : Tracked("addIssue", level)
    /\ UNCHANGED <<vpc, mapperVars>>

\* new TrackingValidationContext(wrapper): a further wrapper, now the innermost
WrapContext ==
    /\ vpc = "tracking"
    /\ Len(vOut.trackers) < MaxWrappers
    /\ vOut' = Wrap(vOut)
    /\ UNCHANGED <<vIn, vpc, mapperVars>>

NextTracking == CallInfo \/ CallWarn \/ CallError \/ CallAddIssue \/ WrapContext

SpecTracking == InitTracking /\ [][NextTracking]_vars

\* the levels of the calls that went through wrapper k, the outermost being 1
LevelsThrough(k) == {vIn.calls[i].level : i \in {j \in 1..Len(vIn.calls) : vIn.calls[j].depth >= k}}
Highest(levels) ==
    IF levels = {} THEN NoSeverity
    ELSE CHOOSE m \in levels : \A x \in levels : x <= m

\* C20: after any calls of info, warn, error and addIssue on a tracking
\* wrapper, its maximum severity is the highest level among the calls made
\* on it, undefined when there was none, and every call reached the wrapped
\* sink exactly once, in call order, with its level and message, however
\* many wrappers are nested.
C20_TrackerRecordsMaximum ==
    (vpc = "tracking") =>
       /\ \A k \in 1..Len(vOut.trackers) : vOut.trackers[k] = Highest(LevelsThrough(k))
       /\ vOut.issues = [i \in 1..Len(vIn.calls) |->
                           ValidationIssue("", vIn.calls[i].level, vIn.calls[i].message)]

\* an error, then a second wrapper, then an info and a warning: the outer
\* wrapper holds error, the inner one warn
C20_Witness ==
    /\ vpc = "tracking"
    /\ Len(vOut.trackers) = 2
    /\ [i \in 1..Len(vIn.calls) |-> vIn.calls[i].level] = <<error, info, warn>>
    /\ vIn.calls[1].depth = 1 /\ vIn.calls[2].depth = 2
    /\ vOut.trackers = <<error, warn>>
    /\ Len(vOut.issues) = 3

----------------------------------------------------------------------------
(* Properties of the alias lookup.                                         *)

RECURSIVE Descend(_, _)
\* where the segments lead to in a value: found with the value reached when
\* every segment exists, a segment of digits read as an index, else not found
Descend(parts, d) ==
    IF Len(parts) = 0 THEN Found(d)
    ELSE IF d.t \in {"obj", "arr", "inst"} /\ HasKey(ixOrName(parts[1]), d)
    THEN Descend(Tail(parts), GetKey(ixOrName(parts[1]), d))
    ELSE NotFound

\* what a reference leads to in a value: an index is one segment, an alias
\* its dotted segments
LeadsTo(ref, d) ==
    IF ref.t = "num"
    THEN IF d.t \in {"obj", "arr", "inst"} /\ HasKey(ref, d) THEN Found(GetKey(ref, d))
         ELSE NotFound
    ELSE Descend(split(ref.v), d)

\* a top-level turn of a declared mapping without transforms: nothing but
\* the lookup can end it unexpectedly
LookupTurn(e) == TurnMapping(e).present /\ PlainMapping(TurnMapping(e))

\* the turn tried its references in order up to the first that leads to a
\* value, and took that value
LookedUp(e) ==
    /\ \A j \in 1..(Len(e.tried) - 1) : ~LeadsTo(e.tried[j], data).found
    /\ (e.kind = "unmapped") <=> ~LeadsTo(FoundRef(e), data).found
    /\ (e.kind # "unmapped") => e.raw = LeadsTo(FoundRef(e), data).value

\* C22: the alias lookup never fails: for every alias - a plain key, a
\* dotted path, a numeric index - and every input, it yields found with the
\* value when every segment of the path exists and not found otherwise, an
\* intermediate segment that is missing, null or a scalar included.
C22_LookupNeverFails ==
    \A i \in TopTurns :
       LookupTurn(turns[i]) =>
          /\ turns[i].kind # "threw"
          /\ LookedUp(turns[i])

----------------------------------------------------------------------------
(* Properties of the pipeline of a resolved value.                         *)

\* the field b of an instance of a nested type built from d: the value under
\* b where the input has one the type accepts, else the initializer value
InnerField(type, d) ==
    IF d.t = "obj" /\ "b" \in DOMAIN d.v /\ (type = "InnerHooked" \/ d.v["b"].t = "str")
    THEN d.v["b"]
    ELSE Str("")

RECURSIVE InnerInstance(_, _)
\* what building an instance of a nested type from d yields; the field n of
\* a Node is the Node built from the value under n
InnerInstance(type, d) ==
    IF IsNullish(d) THEN d
    ELSE IF type = "Node"
    THEN Inst([cls |-> type, args |-> <<>>,
               fields |-> "n" :> (IF d.t = "obj" /\ "n" \in DOMAIN d.v
                                  THEN InnerInstance(type, d.v["n"]) ELSE Null)])
    ELSE Inst([cls |-> type, args |-> <<>>, fields |-> "b" :> InnerField(type, d)])

\* what the nested-type mapping of a mapping yields for a value: the value
\* itself when no nested type is declared, an instance, or the instances of
\* the elements
Recursed(m, val) ==
    IF m.mappedAs = "none" THEN val
    ELSE IF ~m.isArray THEN InnerInstance(m.mappedAs, val)
    ELSE IF IsNullish(val) \/ val.t # "arr" THEN Undefined
    ELSE Arr([i \in 1..Len(val.v) |-> InnerInstance(m.mappedAs, val.v[i])])

\* a top-level turn of a declared mapping whose last reference tried leads
\* to a value of the input
FoundTurn(e) ==
    /\ TurnMapping(e).present
    /\ e.tried # <<>>
    /\ LeadsTo(FoundRef(e), data).found

\* the issues the validations of a turn reported
ReportedBy(e) == SubSeq(e.validated, Len(e.before) + 1, Len(e.validated))

\* the validations of a turn reported no error-level issue
NoErrorReported(e) == \A k \in 1..Len(ReportedBy(e)) : ReportedBy(e)[k].level # error

\* the issues the validations of a mapping report on a value at a reference
IssuesOn(m, val, ref) ==
    IF m.validations = <<>> THEN <<>>
    ELSE validateValue(m.validations, val, Context(<<>>, <<Segment(ref)>>)).issues

\* a found turn went through the pipeline: the validations saw pre, and
\* without an error-level issue the stored value is the nested-type mapping
\* of the transform of pre (a transform that throws ends the conversion)
Piped(e, m, pre, post) ==
    /\ ReportedBy(e) = IssuesOn(m, pre, FoundRef(e))
    /\ NoErrorReported(e) =>
          IF post.threw THEN e.did = "threw"
          ELSE /\ e.kind \in {"value", "nested"}
               /\ e.did \in {"stored", "nested"}
               /\ (m.mappedAs = "none") => (e.did = "stored" /\ e.val = post.value)
               /\ Built => Held(e) = Recursed(m, post.value)

PipedThrough(e, m, pre) ==
    IF pre.threw THEN e.did = "threw"
    ELSE Piped(e, m, pre.value, ApplyTransform(m.transform, pre.value))

\* C21: where an alias of a field or parameter resolves to a raw value v,
\* the validations are run on pre(v) and, unless they report an error-level
\* issue, the value stored is recurse(transform(pre(v))), each step the
\* identity when not declared; info and warn issues suppress neither the
\* transform, the recursion nor the assignment.
C21_ValueThroughPipeline ==
    \A i \in TopTurns :
       FoundTurn(turns[i]) =>
          PipedThrough(turns[i], TurnMapping(turns[i]),
                       ApplyTransform(TurnMapping(turns[i]).preValidationTransform,
                                      LeadsTo(FoundRef(turns[i]), data).value))

\* a number under the alias: the pre-validation transform makes it a string,
\* the string validation passes with a warning from a second validation,
\* and the upper-cased string is stored
C21_Witness ==
    /\ Built
    /\ Len(turns) = 1
    /\ FoundTurn(turns[1])
    /\ turns[1].raw = Num(42)
    /\ TurnMapping(turns[1]).preValidationTransform = "toString"
    /\ TurnMapping(turns[1]).transform = "toUpperCase"
    /\ Len(ReportedBy(turns[1])) = 1
    /\ ReportedBy(turns[1])[1].level = warn
    /\ Held(turns[1]) = Str("42")

\* a nested object under the alias, validated with a warning, stored as an
\* instance of the nested type
C21_WitnessNested ==
    /\ Built
    /\ \E i \in TopTurns :
          /\ FoundTurn(turns[i])
          /\ TurnMapping(turns[i]).mappedAs = "Inner"
          /\ Len(ReportedBy(turns[i])) = 1
          /\ ReportedBy(turns[i])[1].level = warn
          /\ Held(turns[i]) = Inst([cls |-> "Inner", args |-> <<>>,
                                    fields |-> "b" :> Str("two")])

----------------------------------------------------------------------------
(* Properties of the recursion over nested types.                          *)

\* the largest of a set of naturals, 0 for the empty set
Largest(S) == IF S = {} THEN 0 ELSE CHOOSE m \in S : \A x \in S : x <= m

RECURSIVE Nesting(_)
\* how deep objects are nested in a value: 0 for a scalar, null or undefined
Nesting(d) ==
    CASE d.t = "obj" -> 1 + Largest({Nesting(d.v[k]) : k \in DOMAIN d.v})
      [] d.t = "arr" -> Largest({Nesting(d.v[i]) : i \in 1..Len(d.v)})
      [] OTHER -> 0

\* the nested types a target type names in its parameter and property mappings
NestedTypesOf(c) ==
    ({paramMappings(c)[i].mappedAs : i \in 1..Len(paramMappings(c))}
       \cup {propMappings(c)[i].mapping.mappedAs : i \in 1..Len(propMappings(c))})
      \ {"none"}

RECURSIVE TypeDepth(_, _)
\* the length of the longest chain of nested-type references from a target
\* type, the type itself counted, followed for at most limit types
TypeDepth(c, limit) ==
    IF limit = 0 THEN 0
    ELSE 1 + Largest({TypeDepth(Types[n], limit - 1) : n \in NestedTypesOf(c)})

\* the target type and the nested types by name
TypeCount == Cardinality(DOMAIN Types) + 1

\* a chain of references longer than there are types passes a type twice
Cyclic(c) == TypeDepth(c, TypeCount + 1) > TypeCount

\* the nesting depth of an acyclic metadata graph
NestingDepth(c) == TypeDepth(c, TypeCount)

\* the activations of internalCreateInstance under way
RecursionDepth == Len(stack)

====
